---- MODULE Spec2Model ----
(***************************************************************************)
(* Model of the per-connection streaming session of the speech relay       *)
(* server (the credential-validating variant, src/unnamed/part_000 lines   *)
(* 124-308).  A client connection owns two closure variables,              *)
(* recognizeStream and isStreamEnded; the socket handlers startStream,     *)
(* binaryData, endStream and disconnect and the callbacks registered on    *)
(* every recognition stream (error, data, end) read and write them.        *)
(*                                                                         *)
(* Node runs every handler to completion, so each handler is one action.   *)
(* The recognition gateway is external: whether streamingRecognize,        *)
(* write() or end() throws, and when a stream emits data, error or end,    *)
(* is a nondeterministic choice.                                           *)
(***************************************************************************)
EXTENDS Integers, Sequences, FiniteSets, TLC

\* ---------------------------------------------------------------- bounds
MaxEvents == 6    \* events handled: connections, client events, stream events

\* ---------------------------------------------------------------- values
Null      == 0            \* recognizeStream = null
Undefined == "undefined"  \* JavaScript undefined

\* process.env.GOOGLE_APPLICATION_CREDENTIALS: unset, empty, malformed, JSON
CredentialEnv == {Undefined, "", " ", "{not json", "{}", "{\"type\":\"service_account\"}"}

\* JSON.parse(credentials) returns (does not throw) on these inputs
JSONParses(text) == text \in {"{}", "{\"type\":\"service_account\"}"}

validateGoogleCredentials(credentials) ==
    IF credentials = Undefined \/ credentials = ""
    THEN FALSE
    ELSE JSONParses(credentials)

\* messages of upstream error events
ErrorMessages == {"write after end", "Write after end", "DEADLINE_EXCEEDED"}

\* payloads of upstream data events: data.results[i].alternatives[j].transcript
Alt(t) == [transcript |-> t]
Res(alts) == [alternatives |-> alts]
DataEvents ==
    { [results |-> <<>>],
      [results |-> <<Res(<<>>)>>],
      [results |-> <<Res(<<Alt("hello")>>)>>],
      [results |-> <<Res(<<Alt("hello world"), Alt("yellow world")>>), Res(<<Alt("other")>>)>>] }

VARIABLES
    hasValidCredentials, \* line 159
    speechClient,        \* line 201: "client" or Undefined
    socket,              \* per connection: "connected" | "disconnected"
    recognizeStream,     \* per connection: Null or a stream id (line 215)
    isStreamEnded,       \* per connection (line 216)
    streams,             \* per stream: what the gateway saw of it
    outbound,            \* per connection: the socket.emit calls, in order
    nEvents,             \* events handled so far
    last,                \* the event handled last and how its handler went
    \* history variables, read by the properties only
    srCalls,             \* calls of speechClient.streamingRecognize
    starts,              \* per connection: startStream events handled
    preStart,            \* per connection: chunks handled before any startStream
    active,              \* per connection: the stream installed by the last
                         \* successful startStream and not stopped/ended since
    due,                 \* per stream: chunks handled while it was active
    sinceEnd,            \* per connection: a stream ended on its own and no
                         \* startStream succeeded since
    closeThrew           \* per connection: an end() call of the session threw

progVars == <<hasValidCredentials, speechClient, socket, recognizeStream,
              isStreamEnded, streams, outbound, nEvents, last>>
histVars == <<srCalls, starts, preStart, active, due, sinceEnd, closeThrew>>
vars == <<progVars, histVars>>

\* one more event is handled
Handled == nEvents < MaxEvents /\ nEvents' = nEvents + 1

Conns     == 1..Len(socket)
StreamIds == 1..Len(streams)

\* io.emit instead of socket.emit: the event goes to every connected client
EmitBroadcast(c, event, payload) ==
    outbound' = [d \in DOMAIN outbound |->
                   Append(outbound[d], [event |-> event, payload |-> payload])]

\* socket.emit(event, payload)
Emit(c, event, payload) ==
    outbound' = [outbound EXCEPT ![c] = Append(@, [event |-> event, payload |-> payload])]

\* what `last` records: the event, its connection, the stream the handler
\* worked on, the event's payload where a property reads it, and the outcome
Event(op, c, s, arg, outcome) ==
    [op |-> op, conn |-> c, stream |-> s, arg |-> arg, outcome |-> outcome]

\* ---------------------------------------------------------------- startup
Init ==
    /\ \E credentials \in CredentialEnv :
          hasValidCredentials = validateGoogleCredentials(credentials)
    /\ speechClient = IF hasValidCredentials THEN "client" ELSE Undefined
    /\ socket = <<>>
    /\ recognizeStream = <<>>
    /\ isStreamEnded = <<>>
    /\ streams = <<>>
    /\ outbound = <<>>
    /\ nEvents = 0
    /\ last = Event("listen", Null, Null, <<>>, "ok")
    /\ srCalls = 0
    /\ starts = <<>>
    /\ preStart = <<>>
    /\ active = <<>>
    /\ due = <<>>
    /\ sinceEnd = <<>>
    /\ closeThrew = <<>>

\* ---------------------------------------------------------------- connection
\* io.on("connection"): a fresh pair of closure variables per socket
Connection ==
    /\ Handled
    /\ socket' = Append(socket, "connected")
    /\ recognizeStream' = Append(recognizeStream, Null)
    /\ isStreamEnded' = Append(isStreamEnded, FALSE)
    /\ outbound' = Append(outbound, <<>>)
    /\ last' = Event("connection", Len(socket) + 1, Null, <<>>, "ok")
    /\ starts' = Append(starts, 0)
    /\ preStart' = Append(preStart, {})
    /\ active' = Append(active, Null)
    /\ sinceEnd' = Append(sinceEnd, FALSE)
    /\ closeThrew' = Append(closeThrew, FALSE)
    /\ UNCHANGED <<hasValidCredentials, speechClient, streams, srCalls, due>>

\* ---------------------------------------------------------------- startStream
\* the check of line 219 left out
BackendNeverChecked == FALSE

\* line 219
BackendUnavailable == ~hasValidCredentials \/ speechClient = Undefined

\* a stream that is handed a chunk the session received before its first start
NewStreamFlushing(c) ==
    [owner |-> c,
     written |-> IF preStart[c] = {} THEN <<>> ELSE <<CHOOSE data \in preStart[c] : TRUE>>,
     endCalls |-> 0, ended |-> FALSE]

\* the stream streamingRecognize returns: nothing written, not closed
NewStream(c) == [owner |-> c, written |-> <<>>, endCalls |-> 0, ended |-> FALSE]

\* lines 219-222
StartUnavailable(c) ==
    /\ BackendUnavailable
    /\ Emit(c, "error", "Speech-to-Text service is not configured")
    /\ last' = Event("startStream", c, Null, <<>>, "unavailable")
    /\ UNCHANGED <<recognizeStream, isStreamEnded, streams, srCalls, active, due, sinceEnd>>

\* the reset of line 226 left out
StartInstallsKeepingFlag(c) ==
    /\ ~BackendUnavailable
    /\ UNCHANGED isStreamEnded
    /\ streams' = Append(streams, NewStream(c))
    /\ recognizeStream' = [recognizeStream EXCEPT ![c] = Len(streams) + 1]
    /\ srCalls' = srCalls + 1
    /\ last' = Event("startStream", c, Len(streams) + 1, <<>>, "ok")
    /\ active' = [active EXCEPT ![c] = Len(streams) + 1]
    /\ due' = Append(due, <<>>)
    /\ sinceEnd' = [sinceEnd EXCEPT ![c] = FALSE]
    /\ UNCHANGED outbound

\* lines 224-254: streamingRecognize returns a stream and the handlers register
StartInstalls(c) ==
    /\ ~BackendUnavailable
    /\ isStreamEnded' = [isStreamEnded EXCEPT ![c] = FALSE]
    /\ streams' = Append(streams, NewStream(c))
    /\ recognizeStream' = [recognizeStream EXCEPT ![c] = Len(streams) + 1]
    /\ srCalls' = srCalls + 1
    /\ last' = Event("startStream", c, Len(streams) + 1, <<>>, "ok")
    /\ active' = [active EXCEPT ![c] = Len(streams) + 1]
    /\ due' = Append(due, <<>>)
    /\ sinceEnd' = [sinceEnd EXCEPT ![c] = FALSE]
    /\ UNCHANGED outbound

\* lines 224-228, 255-258: streamingRecognize throws after the flag was reset
StartThrows(c) ==
    /\ ~BackendUnavailable
    /\ isStreamEnded' = [isStreamEnded EXCEPT ![c] = FALSE]
    /\ srCalls' = srCalls + 1
    /\ Emit(c, "error", "Failed to start stream")
    /\ last' = Event("startStream", c, Null, <<>>, "threw")
    /\ UNCHANGED <<recognizeStream, streams, active, due, sinceEnd>>

StartStream(c) ==
    /\ socket[c] = "connected"
    /\ Handled
    /\ starts' = [starts EXCEPT ![c] = @ + 1]
    /\ \/ StartUnavailable(c)
       \/ StartInstalls(c)
       \/ StartThrows(c)
    /\ UNCHANGED <<hasValidCredentials, speechClient, socket, preStart, closeThrew>>

\* ---------------------------------------------------------------- binaryData
\* line 262
WriteGuard(c) == recognizeStream[c] # Null /\ ~isStreamEnded[c]

\* recognizeStream.write(data): the gateway sees the call whether or not it throws
Write(s, data) == streams' = [streams EXCEPT ![s].written = Append(@, data)]

\* a failed write treated as the end of the stream: the catch block also sets
\* isStreamEnded
BinaryDataGivingUp(c, data) ==
    /\ socket[c] = "connected"
    /\ Handled
    /\ IF WriteGuard(c)
       THEN /\ Write(recognizeStream[c], data)
            /\ \/ /\ UNCHANGED <<outbound, isStreamEnded>>
                  /\ last' = Event("binaryData", c, recognizeStream[c], <<>>, "ok")
               \/ /\ Emit(c, "error", "Failed to process audio data")
                  /\ isStreamEnded' = [isStreamEnded EXCEPT ![c] = TRUE]
                  /\ last' = Event("binaryData", c, recognizeStream[c], <<>>, "threw")
       ELSE /\ UNCHANGED <<streams, outbound, isStreamEnded>>
            /\ last' = Event("binaryData", c, Null, <<>>, "noop")
    /\ preStart' = IF starts[c] > 0 THEN preStart
                   ELSE [preStart EXCEPT ![c] = @ \cup {data}]
    /\ due' = IF active[c] # Null THEN [due EXCEPT ![active[c]] = Append(@, data)]
              ELSE due
    /\ UNCHANGED <<hasValidCredentials, speechClient, socket, recognizeStream,
                   srCalls, starts, active, sinceEnd, closeThrew>>

\* lines 261-270; Next gives every frame a payload no other frame carries
\* (the number of the event that delivers it)
BinaryData(c, data) ==
    /\ socket[c] = "connected"
    /\ Handled
    /\ IF WriteGuard(c)
       THEN /\ Write(recognizeStream[c], data)
            /\ \/ /\ UNCHANGED outbound
                  /\ last' = Event("binaryData", c, recognizeStream[c], <<>>, "ok")
               \/ /\ Emit(c, "error", "Failed to process audio data")
                  /\ last' = Event("binaryData", c, recognizeStream[c], <<>>, "threw")
       ELSE /\ UNCHANGED <<streams, outbound>>
            /\ last' = Event("binaryData", c, Null, <<>>, "noop")
    /\ preStart' = IF starts[c] > 0 THEN preStart
                   ELSE [preStart EXCEPT ![c] = @ \cup {data}]
    /\ due' = IF active[c] # Null THEN [due EXCEPT ![active[c]] = Append(@, data)]
              ELSE due
    /\ UNCHANGED <<hasValidCredentials, speechClient, socket, recognizeStream,
                   isStreamEnded, srCalls, starts, active,
                   sinceEnd, closeThrew>>

\* ---------------------------------------------------------------- endStream, disconnect
\* line 273
StopGuard(c) == recognizeStream[c] # Null /\ ~isStreamEnded[c]

\* line 286
DisconnectGuard(c) == recognizeStream[c] # Null /\ ~isStreamEnded[c]

\* recognizeStream.end(): the gateway sees the close request whether or not it throws
End(s) == streams' = [streams EXCEPT ![s].endCalls = @ + 1]

\* lines 274-280 and 287-293: the body of the two try blocks
CloseStream(op, c) ==
    /\ isStreamEnded' = [isStreamEnded EXCEPT ![c] = TRUE]
    /\ End(recognizeStream[c])
    /\ \/ /\ recognizeStream' = [recognizeStream EXCEPT ![c] = Null]
          /\ last' = Event(op, c, recognizeStream[c], <<>>, "ok")
          /\ UNCHANGED closeThrew
       \/ /\ UNCHANGED recognizeStream      \* end() threw: line 277/290 is skipped
          /\ last' = Event(op, c, recognizeStream[c], <<>>, "threw")
          /\ closeThrew' = [closeThrew EXCEPT ![c] = TRUE]

NoClose(op, c) ==
    /\ UNCHANGED <<recognizeStream, isStreamEnded, streams, closeThrew>>
    /\ last' = Event(op, c, Null, <<>>, "noop")

\* lines 272-282
EndStream(c) ==
    /\ socket[c] = "connected"
    /\ Handled
    /\ IF StopGuard(c) THEN CloseStream("endStream", c) ELSE NoClose("endStream", c)
    /\ active' = [active EXCEPT ![c] = Null]
    /\ UNCHANGED <<hasValidCredentials, speechClient, socket, outbound, srCalls,
                   starts, preStart, due, sinceEnd>>

\* lines 284-295
Disconnect(c) ==
    /\ socket[c] = "connected"
    /\ Handled
    /\ socket' = [socket EXCEPT ![c] = "disconnected"]
    /\ IF DisconnectGuard(c) THEN CloseStream("disconnect", c) ELSE NoClose("disconnect", c)
    /\ active' = [active EXCEPT ![c] = Null]
    /\ UNCHANGED <<hasValidCredentials, speechClient, outbound, srCalls, starts,
                   preStart, due, sinceEnd>>

\* ---------------------------------------------------------------- upstream callbacks
\* array[0] is undefined (falsy) exactly when the array is empty
HasFirst(array) == Len(array) >= 1

\* the last result's last alternative instead of the first's first
TranscriptionsOfLast(data) ==
    IF HasFirst(data.results) /\ HasFirst(data.results[Len(data.results)].alternatives)
    THEN LET alternatives == data.results[Len(data.results)].alternatives
         IN  <<alternatives[Len(alternatives)].transcript>>
    ELSE <<>>

\* lines 246-248: the payloads the data handler emits for one data event
Transcriptions(data) ==
    IF HasFirst(data.results) /\ HasFirst(data.results[1].alternatives)
    THEN <<data.results[1].alternatives[1].transcript>>
    ELSE <<>>

\* results of a stream the session no longer refers to are discarded
OnDataCurrentOnly(s, data) ==
    LET c == streams[s].owner IN
    /\ ~streams[s].ended
    /\ Handled
    /\ outbound' = IF recognizeStream[c] = s
                   THEN [outbound EXCEPT ![c] =
                           @ \o [i \in 1..Len(Transcriptions(data)) |->
                                   [event |-> "transcription", payload |-> Transcriptions(data)[i]]]]
                   ELSE outbound
    /\ last' = Event("data", c, s, data, IF Transcriptions(data) = <<>> THEN "noop" ELSE "ok")
    /\ UNCHANGED <<hasValidCredentials, speechClient, socket, recognizeStream,
                   isStreamEnded, streams, srCalls, starts,
                   preStart, active, due, sinceEnd, closeThrew>>

\* lines 245-250
OnData(s, data) ==
    LET c == streams[s].owner IN
    /\ ~streams[s].ended
    /\ Handled
    /\ outbound' = [outbound EXCEPT ![c] =
                      @ \o [i \in 1..Len(Transcriptions(data)) |->
                              [event |-> "transcription", payload |-> Transcriptions(data)[i]]]]
    /\ last' = Event("data", c, s, data, IF Transcriptions(data) = <<>> THEN "noop" ELSE "ok")
    /\ UNCHANGED <<hasValidCredentials, speechClient, socket, recognizeStream,
                   isStreamEnded, streams, srCalls, starts,
                   preStart, active, due, sinceEnd, closeThrew>>

\* no message is filtered
BenignNever(message) == FALSE

\* line 240
Benign(message) == message = "write after end"

\* line 242
ErrorText(message) == "Speech recognition error: " \o message

\* a forwarded error treated as terminal: the handler also clears the session
OnErrorTerminal(s, message) ==
    LET c == streams[s].owner IN
    /\ Handled
    /\ IF ~Benign(message)
       THEN /\ Emit(c, "error", ErrorText(message))
            /\ isStreamEnded' = [isStreamEnded EXCEPT ![c] = TRUE]
            /\ recognizeStream' = [recognizeStream EXCEPT ![c] = Null]
            /\ last' = Event("error", c, s, message, "ok")
       ELSE /\ UNCHANGED <<outbound, isStreamEnded, recognizeStream>>
            /\ last' = Event("error", c, s, message, "noop")
    /\ UNCHANGED <<hasValidCredentials, speechClient, socket,
                   streams, srCalls, starts,
                   preStart, active, due, sinceEnd, closeThrew>>

\* lines 239-244
OnError(s, message) ==
    LET c == streams[s].owner IN
    /\ Handled
    /\ IF ~Benign(message)
       THEN /\ Emit(c, "error", ErrorText(message))
            /\ last' = Event("error", c, s, message, "ok")
       ELSE /\ UNCHANGED outbound
            /\ last' = Event("error", c, s, message, "noop")
    /\ UNCHANGED <<hasValidCredentials, speechClient, socket, recognizeStream,
                   isStreamEnded, streams, srCalls, starts,
                   preStart, active, due, sinceEnd, closeThrew>>

\* the end handler sets the flag and keeps the reference
EndHandlerKeepsStream(c) ==
    /\ isStreamEnded' = [isStreamEnded EXCEPT ![c] = TRUE]
    /\ UNCHANGED recognizeStream

\* lines 252-253: the handler assigns the session's variables, whichever
\* stream of the session emitted the event
EndHandler(c) ==
    /\ isStreamEnded' = [isStreamEnded EXCEPT ![c] = TRUE]
    /\ recognizeStream' = [recognizeStream EXCEPT ![c] = Null]

\* lines 251-254
OnEnd(s) ==
    LET c == streams[s].owner IN
    /\ ~streams[s].ended
    /\ Handled
    /\ streams' = [streams EXCEPT ![s].ended = TRUE]
    /\ EndHandler(c)
    /\ last' = Event("end", c, s, <<>>, "ok")
    /\ active' = IF active[c] = s THEN [active EXCEPT ![c] = Null] ELSE active
    /\ sinceEnd' = IF streams[s].endCalls = 0
                   THEN [sinceEnd EXCEPT ![c] = TRUE] ELSE sinceEnd
    /\ UNCHANGED <<hasValidCredentials, speechClient, socket, outbound, srCalls,
                   starts, preStart, due, closeThrew>>

\* ---------------------------------------------------------------- specification
Next ==
    \/ Connection
    \/ \E c \in Conns : StartStream(c)
    \/ \E c \in Conns : BinaryData(c, nEvents + 1)
    \/ \E c \in Conns : EndStream(c)
    \/ \E c \in Conns : Disconnect(c)
    \/ \E s \in StreamIds : \E data \in DataEvents : OnData(s, data)
    \/ \E s \in StreamIds : \E message \in ErrorMessages : OnError(s, message)
    \/ \E s \in StreamIds : OnEnd(s)

Spec == Init /\ [][Next]_vars

\* ================================================================ src/server.ts
\* The simple session handler: one closure variable recognizeStream per
\* connection, no isStreamEnded flag, no 'end' listener, no try/catch.  An
\* exception thrown inside a handler, or at module load, is caught by nobody
\* and ends the process; `last` then keeps the outcome "uncaught" and no
\* further event is handled.
\* The variables server.ts does not have keep their initial values.
simpleUnused == <<hasValidCredentials, isStreamEnded, srCalls, starts, preStart,
                  active, due, sinceEnd, closeThrew>>

\* server.ts line 19: process.env.GOOGLE_APPLICATION_CREDENTIALS || '{}'
SimpleCredentialText(credentials) ==
    IF credentials = Undefined \/ credentials = "" THEN "{}" ELSE credentials

\* server.ts lines 18-20: JSON.parse runs at module load outside any try; when
\* it throws the process exits before a handler is registered, otherwise the
\* client is constructed and the server listens
SimpleInit ==
    /\ hasValidCredentials = TRUE
    /\ \E credentials \in CredentialEnv :
          IF JSONParses(SimpleCredentialText(credentials))
          THEN /\ speechClient = "client"
               /\ last = Event("listen", Null, Null, <<>>, "ok")
          ELSE /\ speechClient = Undefined
               /\ last = Event("load", Null, Null, <<>>, "uncaught")
    /\ socket = <<>>
    /\ recognizeStream = <<>>
    /\ isStreamEnded = <<>>
    /\ streams = <<>>
    /\ outbound = <<>>
    /\ nEvents = 0
    /\ srCalls = 0
    /\ starts = <<>>
    /\ preStart = <<>>
    /\ active = <<>>
    /\ due = <<>>
    /\ sinceEnd = <<>>
    /\ closeThrew = <<>>

\* no exception has escaped a handler or the module's top level
Running == last.outcome # "uncaught"

\* server.ts lines 22-25
SimpleConnection ==
    /\ Running
    /\ Handled
    /\ socket' = Append(socket, "connected")
    /\ recognizeStream' = Append(recognizeStream, Null)
    /\ outbound' = Append(outbound, <<>>)
    /\ last' = Event("connection", Len(socket) + 1, Null, <<>>, "ok")
    /\ UNCHANGED <<speechClient, streams, simpleUnused>>

\* server.ts lines 27-46: the reference is overwritten, or the call throws
SimpleStartStream(c) ==
    /\ Running
    /\ socket[c] = "connected"
    /\ Handled
    /\ \/ /\ streams' = Append(streams, NewStream(c))
          /\ recognizeStream' = [recognizeStream EXCEPT ![c] = Len(streams) + 1]
          /\ last' = Event("startStream", c, Len(streams) + 1, <<>>, "ok")
       \/ /\ UNCHANGED <<streams, recognizeStream>>
          /\ last' = Event("startStream", c, Null, <<>>, "uncaught")
    /\ UNCHANGED <<speechClient, socket, outbound, simpleUnused>>

\* server.ts line 49
SimpleWriteGuard(c) == recognizeStream[c] # Null

\* server.ts lines 48-52
SimpleBinaryData(c, data) ==
    /\ Running
    /\ socket[c] = "connected"
    /\ Handled
    /\ IF SimpleWriteGuard(c)
       THEN /\ Write(recognizeStream[c], data)
            /\ \E outcome \in {"ok", "uncaught"} :
                  last' = Event("binaryData", c, recognizeStream[c], <<>>, outcome)
       ELSE /\ UNCHANGED streams
            /\ last' = Event("binaryData", c, Null, <<>>, "noop")
    /\ UNCHANGED <<speechClient, socket, recognizeStream, outbound, simpleUnused>>

\* server.ts lines 55 and 62
SimpleCloseGuard(c) == recognizeStream[c] # Null

\* server.ts lines 55-57 and 62-64: end() is called and the reference is kept
SimpleClose(op, c) ==
    IF SimpleCloseGuard(c)
    THEN /\ End(recognizeStream[c])
         /\ \E outcome \in {"ok", "uncaught"} :
               last' = Event(op, c, recognizeStream[c], <<>>, outcome)
    ELSE /\ UNCHANGED streams
         /\ last' = Event(op, c, Null, <<>>, "noop")

\* server.ts lines 54-58
SimpleEndStream(c) ==
    /\ Running
    /\ socket[c] = "connected"
    /\ Handled
    /\ SimpleClose("endStream", c)
    /\ UNCHANGED <<speechClient, socket, recognizeStream, outbound, simpleUnused>>

\* server.ts lines 60-65
SimpleDisconnect(c) ==
    /\ Running
    /\ socket[c] = "connected"
    /\ Handled
    /\ socket' = [socket EXCEPT ![c] = "disconnected"]
    /\ SimpleClose("disconnect", c)
    /\ UNCHANGED <<speechClient, recognizeStream, outbound, simpleUnused>>

\* server.ts lines 40-45: only the result is tested, so reading .transcript of
\* a missing first alternative throws a TypeError
SimpleOnData(s, data) ==
    LET c == streams[s].owner IN
    /\ Running
    /\ ~streams[s].ended
    /\ Handled
    /\ IF ~HasFirst(data.results)
       THEN /\ UNCHANGED outbound
            /\ last' = Event("data", c, s, data, "noop")
       ELSE IF ~HasFirst(data.results[1].alternatives)
       THEN /\ UNCHANGED outbound
            /\ last' = Event("data", c, s, data, "uncaught")
       ELSE /\ Emit(c, "transcription", data.results[1].alternatives[1].transcript)
            /\ last' = Event("data", c, s, data, "ok")
    /\ UNCHANGED <<speechClient, socket, recognizeStream, streams, simpleUnused>>

\* server.ts line 39: console.error
SimpleOnError(s, message) ==
    /\ Running
    /\ Handled
    /\ last' = Event("error", streams[s].owner, s, message, "noop")
    /\ UNCHANGED <<speechClient, socket, recognizeStream, streams, outbound, simpleUnused>>

\* the stream emits end; server.ts registers no listener for it (lines 28-45)
SimpleStreamEnds(s) ==
    /\ Running
    /\ ~streams[s].ended
    /\ Handled
    /\ streams' = [streams EXCEPT ![s].ended = TRUE]
    /\ last' = Event("end", streams[s].owner, s, <<>>, "noop")
    /\ UNCHANGED <<speechClient, socket, recognizeStream, outbound, simpleUnused>>

SimpleNext ==
    \/ SimpleConnection
    \/ \E c \in Conns : SimpleStartStream(c)
    \/ \E c \in Conns : SimpleBinaryData(c, nEvents + 1)
    \/ \E c \in Conns : SimpleEndStream(c)
    \/ \E c \in Conns : SimpleDisconnect(c)
    \/ \E s \in StreamIds : \E data \in DataEvents : SimpleOnData(s, data)
    \/ \E s \in StreamIds : \E message \in ErrorMessages : SimpleOnError(s, message)
    \/ \E s \in StreamIds : SimpleStreamEnds(s)

SpecSimple == SimpleInit /\ [][SimpleNext]_vars


\* ---------------------------------------------------------------- properties
\* a stream is open (live) until end() is called on it or it emits end
Open(s) == streams[s].endCalls = 0 /\ ~streams[s].ended

StreamsOf(c) == {s \in StreamIds : streams[s].owner = c}

ErrorEvent(text) == [event |-> "error", payload |-> text]
TranscriptionEvent(text) == [event |-> "transcription", payload |-> text]

\* C1: every chunk handled while a stream is the active one (installed by the
\* last successful startStream, with no endStream, disconnect or end event of
\* that stream since) is passed to that stream's write() exactly once, in
\* arrival order, and nothing else is
C1_ChunksForwardedToActive ==
    \A s \in StreamIds : streams[s].written = due[s]

\* C2: a session never has two open streams
C2_AtMostOneOpenStream ==
    \A c \in Conns : Cardinality({s \in StreamsOf(c) : Open(s)}) <= 1

\* C3: chunks handled before the session's first startStream are never passed
\* to any stream's write(), then or later, and until that first startStream the
\* session has emitted nothing
C3_PreStartChunksDropped ==
    \A c \in Conns :
        /\ starts[c] = 0 => outbound[c] = <<>>
        /\ \A s \in StreamIds : \A i \in 1..Len(streams[s].written) :
              streams[s].written[i] \notin preStart[c]

\* chunks were dropped before the first start, and a later chunk was written
C3_Witness ==
    \E c \in Conns :
        /\ preStart[c] # {}
        /\ recognizeStream[c] # Null
        /\ streams[recognizeStream[c]].written # <<>>
        /\ last.op = "binaryData"

\* C4: an endStream or disconnect handled with no stream installed or with the
\* flag already set changes nothing, emits nothing and does not throw; and no
\* stream ever has end() called on it twice
C4_StopIdempotent ==
    [][/\ \A c \in Conns :
            (/\ last'.op \in {"endStream", "disconnect"}
             /\ last'.conn = c
             /\ (recognizeStream[c] = Null \/ isStreamEnded[c]))
            => /\ streams' = streams
               /\ outbound' = outbound
               /\ recognizeStream' = recognizeStream
               /\ isStreamEnded' = isStreamEnded
               /\ last'.outcome = "noop"
       /\ \A s \in DOMAIN streams' : streams'[s].endCalls <= 1]_vars

\* C5: after a stream ended on its own, a chunk handled before the next
\* successful startStream is written nowhere and emits nothing
C5_ChunksDroppedAfterUpstreamEnd ==
    [][\A c \in Conns :
          (sinceEnd[c] /\ last'.op = "binaryData" /\ last'.conn = c)
          => (streams' = streams /\ outbound' = outbound)]_vars

\* a chunk was handled after an unprompted end and a failed restart
C5_Witness ==
    /\ last.op = "binaryData"
    /\ sinceEnd[last.conn]
    /\ \E i \in 1..Len(outbound[last.conn]) :
          outbound[last.conn][i] = ErrorEvent("Failed to start stream")

\* C6: when a startStream handler has returned, recognizeStream is null or
\* refers to an open stream with isStreamEnded false
C6_StartLeavesLiveOrNone ==
    last.op = "startStream" =>
        \/ recognizeStream[last.conn] = Null
        \/ Open(recognizeStream[last.conn]) /\ ~isStreamEnded[last.conn]

\* C7: after disconnect every stream of the session has had end() called on
\* it or has emitted end
C7_DisconnectClosesAll ==
    \A c \in Conns :
        socket[c] = "disconnected" => \A s \in StreamsOf(c) : ~Open(s)

\* C8: an upstream error with message 'write after end' emits nothing; any
\* other emits exactly one error event 'Speech recognition error: <message>'
\* on the stream's connection
C8_BenignErrorFiltered ==
    [][\A c \in Conns :
          (last'.op = "error" /\ last'.conn = c)
          => /\ \A d \in Conns \ {c} : outbound'[d] = outbound[d]
             /\ outbound'[c] =
                  IF last'.arg = "write after end" THEN outbound[c]
                  ELSE Append(outbound[c],
                              ErrorEvent("Speech recognition error: " \o last'.arg))]_vars

\* a benign error left the channel empty after a near-miss message was forwarded
C8_Witness ==
    /\ last.op = "error"
    /\ last.arg = "write after end"
    /\ outbound[last.conn] = <<ErrorEvent("Speech recognition error: Write after end")>>

\* C9: with invalid credentials every startStream emits the one error event
\* and nothing else happens: streamingRecognize is never called, no stream
\* exists, and every session keeps recognizeStream = null, isStreamEnded = false
C9_NotConfigured ==
    (~hasValidCredentials \/ speechClient = Undefined) =>
        /\ srCalls = 0
        /\ streams = <<>>
        /\ \A c \in Conns :
              /\ recognizeStream[c] = Null
              /\ ~isStreamEnded[c]
              /\ outbound[c] = [i \in 1..starts[c] |->
                                  ErrorEvent("Speech-to-Text service is not configured")]

\* two startStream events were refused on one connection
C9_Witness ==
    /\ ~hasValidCredentials
    /\ \E c \in Conns : starts[c] = 2 /\ Len(outbound[c]) = 2

\* C10: a data event whose first result has a first alternative appends
\* exactly one transcription event with that transcript to the connection's
\* channel, at once; any other data event appends nothing
C10_DataForwardedInOrder ==
    [][\A c \in Conns :
          (last'.op = "data" /\ last'.conn = c)
          => LET results == last'.arg.results IN
             /\ \A d \in Conns \ {c} : outbound'[d] = outbound[d]
             /\ outbound'[c] =
                  IF results # <<>> /\ results[1].alternatives # <<>>
                  THEN Append(outbound[c],
                              TranscriptionEvent(results[1].alternatives[1].transcript))
                  ELSE outbound[c]]_vars

\* "hello" then "hello world" reached the client in that order, with an empty
\* data event in between
C10_Witness ==
    /\ last.op = "data"
    /\ nEvents >= 5
    /\ outbound[last.conn] = <<TranscriptionEvent("hello"), TranscriptionEvent("hello world")>>

\* C11: an event handled for one connection (its client events, the callbacks
\* of its streams, whether or not a gateway call throws) leaves every other
\* connection's recognizeStream, isStreamEnded, streams and channel as they were
C11_SessionsIsolated ==
    [][\A c \in Conns : \A d \in Conns \ {c} :
          last'.conn = c
          => /\ recognizeStream'[d] = recognizeStream[d]
             /\ isStreamEnded'[d] = isStreamEnded[d]
             /\ outbound'[d] = outbound[d]
             /\ \A s \in StreamsOf(d) : streams'[s] = streams[s]]_vars

\* two sessions stream at once, one has forwarded audio, and the other's
\* write has just thrown
C11_Witness ==
    \E c \in Conns : \E d \in Conns \ {c} :
        /\ recognizeStream[c] # Null /\ recognizeStream[d] # Null
        /\ streams[recognizeStream[d]].written # <<>>
        /\ outbound[d] = <<>>
        /\ last.conn = c /\ last.op = "binaryData" /\ last.outcome = "threw"

\* C12: in the simple handler no stream has end() called on it more than once
C12_SimpleAtMostOneClose ==
    \A c \in Conns : \A s \in StreamsOf(c) : streams[s].endCalls < 2

\* C13: in the simple handler no chunk is passed to write() of a stream on
\* which end() was already called
C13_SimpleNoWriteAfterClose ==
    [][\A s \in StreamIds :
          streams'[s].written # streams[s].written => streams[s].endCalls = 0]_vars

\* C14: an endStream or disconnect handled with a stream installed and the
\* flag false sets the flag, calls end() once on that stream, emits nothing and
\* clears recognizeStream, also when end() throws
C14_StopClearsStream ==
    [][\A c \in Conns :
          (/\ last'.op \in {"endStream", "disconnect"}
           /\ last'.conn = c
           /\ recognizeStream[c] # Null /\ ~isStreamEnded[c])
          => /\ isStreamEnded'[c]
             /\ recognizeStream'[c] = Null
             /\ outbound' = outbound
             /\ streams'[recognizeStream[c]].endCalls =
                   streams[recognizeStream[c]].endCalls + 1]_vars

\* C15: a startStream whose streamingRecognize throws emits exactly one
\* 'Failed to start stream' and leaves recognizeStream null
C15_FailedStartLeavesNone ==
    [][\A c \in Conns :
          (last'.op = "startStream" /\ last'.conn = c /\ last'.outcome = "threw")
          => /\ outbound'[c] = Append(outbound[c], ErrorEvent("Failed to start stream"))
             /\ recognizeStream'[c] = Null]_vars

\* C16: a binaryData whose write() throws emits exactly one 'Failed to process
\* audio data', calls end() on nothing and leaves recognizeStream and
\* isStreamEnded as they were; the chunk handled next is written to the same
\* stream
C16_WriteFailureKeepsStream ==
    [][\A c \in Conns :
          /\ (last'.op = "binaryData" /\ last'.conn = c /\ last'.outcome = "threw")
             => /\ outbound'[c] =
                     Append(outbound[c], ErrorEvent("Failed to process audio data"))
                /\ recognizeStream' = recognizeStream
                /\ isStreamEnded' = isStreamEnded
                /\ \A s \in StreamIds : /\ streams'[s].endCalls = streams[s].endCalls
                                        /\ streams'[s].ended = streams[s].ended
          /\ (/\ last.op = "binaryData" /\ last.conn = c /\ last.outcome = "threw"
              /\ last'.op = "binaryData" /\ last'.conn = c)
             => /\ last'.stream = last.stream
                /\ Len(streams'[last.stream].written) =
                     Len(streams[last.stream].written) + 1]_vars

\* a chunk was written to the stream whose write() threw on the chunk before
C16_Witness ==
    /\ last.op = "binaryData" /\ last.outcome = "ok"
    /\ outbound[last.conn] = <<ErrorEvent("Failed to process audio data")>>
    /\ Len(streams[last.stream].written) = 2

\* C17: the upstream error handler changes neither recognizeStream nor
\* isStreamEnded and calls end() on nothing; a chunk handled right after a
\* forwarded error of the installed, not ended stream is written to that stream
C17_ErrorKeepsStream ==
    [][\A c \in Conns :
          /\ (last'.op = "error" /\ last'.conn = c)
             => /\ recognizeStream' = recognizeStream
                /\ isStreamEnded' = isStreamEnded
                /\ streams' = streams
          /\ (/\ last.op = "error" /\ last.conn = c
              /\ last.arg # "write after end"
              /\ recognizeStream[c] = last.stream /\ ~isStreamEnded[c]
              /\ last'.op = "binaryData" /\ last'.conn = c)
             => /\ last'.stream = last.stream
                /\ Len(streams'[last.stream].written) =
                     Len(streams[last.stream].written) + 1]_vars

\* a chunk was written to the only stream after that stream's error was forwarded
C17_Witness ==
    /\ last.op = "binaryData" /\ last.outcome = "ok"
    /\ Len(streams) = 1
    /\ outbound[last.conn] = <<ErrorEvent("Speech recognition error: DEADLINE_EXCEEDED")>>
    /\ streams[1].written = <<nEvents>>

\* C18: in a session none of whose end() calls threw, a non-null
\* recognizeStream goes with isStreamEnded = false
C18_StreamImpliesNotEnded ==
    \A c \in Conns :
        ~closeThrew[c] => (recognizeStream[c] # Null => ~isStreamEnded[c])

\* a session that was stopped cleanly and started again
C18_Witness ==
    \E c \in Conns :
        /\ ~closeThrew[c]
        /\ recognizeStream[c] # Null /\ ~isStreamEnded[c]
        /\ \E s \in StreamsOf(c) : streams[s].endCalls = 1

\* C19: a data event with a first alternative, emitted by a stream that
\* endStream has already closed, still appends exactly one transcription
\* event to the connection's channel
C19_ResultsAfterStopForwarded ==
    [][\A s \in StreamIds :
          (/\ last'.op = "data" /\ last'.stream = s
           /\ streams[s].endCalls >= 1
           /\ socket[streams[s].owner] = "connected"
           /\ last'.arg.results # <<>>
           /\ last'.arg.results[1].alternatives # <<>>)
          => outbound'[streams[s].owner] =
               Append(outbound[streams[s].owner],
                      TranscriptionEvent(last'.arg.results[1].alternatives[1].transcript))]_vars

\* the closed stream delivered a result after a new stream was installed
C19_Witness ==
    /\ last.op = "data" /\ last.outcome = "ok"
    /\ streams[last.stream].endCalls = 1
    /\ socket[last.conn] = "connected"
    /\ recognizeStream[last.conn] \notin {Null, last.stream}
    /\ outbound[last.conn] = <<TranscriptionEvent("hello")>>

====
